---------------------------- MODULE Spec2Model ----------------------------
(***************************************************************************)
(* Model of ihome/api_1_0/passport.py: the register, login, check_login    *)
(* and logout view functions, the redis keys they use (sms_code_<mobile>,  *)
(* access_nums_<ip>), the user table and the per-client flask session.     *)
(*                                                                         *)
(* Every client runs one request at a time; requests of different clients  *)
(* interleave between two accesses to redis or to the database, each of    *)
(* which is one atomic step of the store.                                  *)
(***************************************************************************)
EXTENDS Integers, Sequences, FiniteSets, TLC

(***************************************************************************)
(* Bounds of the model.                                                    *)
(***************************************************************************)
\* constants.LOGIN_ERROR_MAX_TIMES, scaled down to keep the state space small
LOGIN_ERROR_MAX_TIMES == 2
\* constants.LOGIN_ERROR_FORBID_TIME, in clock ticks of the model
LOGIN_ERROR_FORBID_TIME == 2
\* the largest value of an access_nums counter the model follows
MaxCount == 4

\* the browsers (flask session contexts) that send requests
Clients == {"a", "b"}
\* request.remote_addr
Addrs == {"203.0.113.5"}

(***************************************************************************)
(* Values.  A python value that may be None is a sequence: << >> is None   *)
(* and <<v>> is the value v.  Strings that the code inspects are sequences *)
(* of characters; a character of a mobile number is an ASCII digit 0..9,    *)
(* or 10, which stands for a character that is no digit, or 11, which      *)
(* stands for a decimal digit outside ASCII (such as U+0661).              *)
(***************************************************************************)
None == << >>
Some(v) == <<v>>
IsNone(o) == o = << >>
Val(o) == o[1]

\* python truthiness of an optional string: None and '' are falsy
Truthy(o) == ~IsNone(o) /\ Val(o) # << >>

Mobile1 == <<1, 3, 8, 0, 0, 0, 0, 1, 1, 1, 1>>
MobileBad == <<1, 2, 8, 0, 0, 0, 0, 1, 1, 1, 1>>
MobileShort == <<1, 3, 8>>
\* '1380000111' followed by a decimal digit outside ASCII
MobileUni == <<1, 3, 8, 0, 0, 0, 0, 1, 1, 1, 11>>
\* the same digit in the first place, and a character that is no digit
MobileUniFirst == <<11, 3, 8, 0, 0, 0, 0, 1, 1, 1, 1>>
MobileLetter == <<1, 3, 8, 0, 0, 0, 0, 1, 1, 1, 10>>

\* the characters \d matches in a str pattern: every Unicode decimal digit
UnicodeDigits == 0..9 \cup {11}

\* re.match(r'1[345678]\d{9}', mobile): anchored at the start only; the
\* literal 1 and the class [345678] match ASCII characters only
MobileMatch(m) ==
    /\ Len(m) >= 11
    /\ m[1] = 1
    /\ m[2] \in 3..8
    /\ \A i \in 3..11 : m[i] \in UnicodeDigits

\* the bytes redis holds for a verification code, and their str
Chars == <<"0", "1", "2", "3", "4", "5", "6", "7", "8", "9">>
Chr(b) == Chars[b - 47]
Ord(c) == 47 + CHOOSE i \in 1..10 : Chars[i] = c
Decode(bytes) == [i \in 1..Len(bytes) |-> Chr(bytes[i])]
Encode(str) == [i \in 1..Len(str) |-> Ord(str[i])]

Pass1 == <<"p", "1">>
Pass2 == <<"p", "2">>

Code1 == <<"4", "3">>
Code2 == <<"4", "4">>


\* the arguments the register requests of the model draw from:
\* <<mobile, sms_code, password, password2>>
RegisterInputs ==
    {<<Some(Mobile1), Some(Code1), Some(Pass1), Some(Pass1)>>,
     <<Some(Mobile1), Some(Code2), Some(Pass1), Some(Pass1)>>,
     <<None, Some(Code1), Some(Pass1), Some(Pass1)>>,
     <<Some(Mobile1), None, Some(Pass1), Some(Pass1)>>,
     <<Some(Mobile1), Some(Code1), Some(<< >>), Some(<< >>)>>,
     <<Some(Mobile1), Some(Code1), Some(Pass1), None>>,
     <<Some(MobileBad), Some(Code1), Some(Pass1), Some(Pass1)>>,
     <<Some(MobileShort), Some(Code1), Some(Pass1), Some(Pass1)>>,
     <<Some(MobileUni), Some(Code1), Some(Pass1), Some(Pass1)>>,
     <<Some(MobileUniFirst), Some(Code1), Some(Pass1), Some(Pass1)>>,
     <<Some(Mobile1), Some(Code1), Some(Pass1), Some(Pass2)>>}

\* the arguments the login requests of the model draw from: <<mobile, password>>
LoginInputs ==
    {<<Some(Mobile1), Some(Pass1)>>,
     <<Some(Mobile1), Some(Pass2)>>,
     <<Some(<< >>), Some(Pass1)>>,
     <<Some(Mobile1), None>>,
     <<Some(MobileBad), Some(Pass1)>>,
     <<Some(MobileUni), Some(Pass1)>>,
     <<Some(MobileLetter), Some(Pass1)>>}

\* partial functions: a key-value store with absent keys
Put(f, k, v) == [x \in (DOMAIN f) \cup {k} |-> IF x = k THEN v ELSE f[x]]
Del(f, k) == [x \in (DOMAIN f) \ {k} |-> f[x]]
Empty == [x \in {} |-> x]

\* jsonify(errno=..., errmsg=..., data=...)
Resp(errno, errmsg) == [errno |-> errno, errmsg |-> errmsg, data |-> None]
NoResp == Resp("-", "-")

\* User.password setter and User.check_password (ihome/models.py): a one-way hash
Hash(password) == <<"hash", password>>
CheckPassword(user, password) == user.password_hash = Hash(password)

(***************************************************************************)
(* State.                                                                  *)
(***************************************************************************)
VARIABLES
    sms_code,      \* redis: mobile -> bytes of the code, for the keys present
    access_nums,   \* redis: address -> [n, ttl], for the keys present; ttl -1: no expiry
    users,         \* database: mobile -> row of the user table
    session,       \* flask session of every client: field -> value
    proc,          \* the request every client is running: pc, arguments, locals
    result,        \* the response of the last request of every client
    hist,          \* history of the running or last request of every client
    ledger,        \* history of every verification code since it was sent
    since,         \* ticks since the last failure was recorded for an address
    epoch,         \* history of every counter since it was last absent
    auth           \* the display name every client is logged in with, or None

vars == <<sms_code, access_nums, users, session, proc, result, hist, ledger,
          since, epoch, auth>>

Idle ==
    [pc |-> "idle", op |-> "-", mobile |-> None, sms_code |-> None,
     password |-> None, password2 |-> None, ip |-> "-",
     real_sms_code |-> None, access_nums |-> None, user |-> None]

NoHist ==
    [args |-> "-", session0 |-> Empty, after_use |-> FALSE, code_read |-> FALSE,
     passed |-> FALSE, current |-> FALSE, lookup |-> "-", seen |-> None, dbq |-> FALSE, cause |-> "-",
     limiter |-> "-"]

\* the history of a request of client c that starts now
StartHist(c, args) == [NoHist EXCEPT !.args = args, !.session0 = session[c]]

NewLedger == [passed |-> 0, del_failed |-> FALSE, used |-> None]

NewEpoch == [clean |-> FALSE, failed |-> 0, overlap |-> FALSE]

InitWith(rows) ==
    /\ sms_code = Empty
    /\ access_nums = Empty
    /\ users = rows
    /\ session = [c \in Clients |-> Empty]
    /\ proc = [c \in Clients |-> Idle]
    /\ result = [c \in Clients |-> NoResp]
    /\ hist = [c \in Clients |-> NoHist]
    /\ ledger = [m \in {Mobile1, MobileUni} |-> NewLedger]
    /\ since = [a \in Addrs |-> LOGIN_ERROR_FORBID_TIME]
    /\ epoch = [a \in Addrs |-> NewEpoch]
    /\ auth = [c \in Clients |-> None]

\* the state after construction: nothing stored, nobody registered
Init == InitWith(Empty)

\* the row register stores for a mobile and a password
NewUser(id, mobile, password) ==
    [id |-> id, name |-> mobile, mobile |-> mobile, password_hash |-> Hash(password)]

\* the state after Mobile1 registered with Pass1 and logged out
InitLogin == InitWith(Put(Empty, Mobile1, NewUser(1, Mobile1, Pass1)))

\* a request that has returned: its locals are gone
Finished(p) ==
    [Idle EXCEPT !.op = p.op, !.mobile = p.mobile, !.sms_code = p.sms_code,
                 !.password = p.password, !.ip = p.ip]

\* what is wrong with the arguments of a request, as the history records it
ArgsClass(mobile, code, password, password2) ==
    IF \/ mobile \in {None, Some(<< >>)} \/ code \in {None, Some(<< >>)}
       \/ password \in {None, Some(<< >>)} \/ password2 \in {None, Some(<< >>)}
    THEN "missing"
    ELSE IF ~MobileMatch(Val(mobile)) THEN "malformed"
    ELSE IF password # password2 THEN "mismatch"
    ELSE "ok"

\* the request of client c returns response r
Return(c, r) ==
    /\ proc' = [proc EXCEPT ![c] = Finished(proc[c])]
    /\ result' = [result EXCEPT ![c] = r]

(***************************************************************************)
(* The environment: the endpoint that sends a verification code stores it  *)
(* under sms_code_<mobile> with a time to live; redis drops an expired key.*)
(***************************************************************************)
SendSmsCode(m, code) ==
    /\ sms_code' = Put(sms_code, m, Encode(code))
    /\ ledger' = [ledger EXCEPT ![m] = NewLedger]
    /\ hist' = [c \in Clients |->
                  IF proc[c].op = "register" /\ proc[c].mobile = Some(m)
                  THEN [hist[c] EXCEPT !.after_use = FALSE, !.current = FALSE]
                  ELSE hist[c]]
    /\ UNCHANGED <<access_nums, users, session, proc, result, since, epoch, auth>>

ExpireSmsCode(m) ==
    /\ m \in DOMAIN sms_code
    /\ sms_code' = Del(sms_code, m)
    /\ UNCHANGED <<access_nums, users, session, proc, result, hist, ledger, since, epoch, auth>>

(***************************************************************************)
(* register: POST /users                                                   *)
(***************************************************************************)
\* RegisterCheck without the comparison of the two passwords
RegisterCheck_NoConfirm(mobile, code, password, password2) ==
    IF ~(Truthy(mobile) /\ Truthy(code) /\ Truthy(password) /\ Truthy(password2))
    THEN Some(Resp("PARAMERR", "arguments incomplete"))
    ELSE IF ~MobileMatch(Val(mobile))
    THEN Some(Resp("PARAMERR", "mobile format wrong"))
    ELSE None

\* the checks of the arguments: the response of a rejected request, or None
RegisterCheck(mobile, code, password, password2) ==
    IF ~(Truthy(mobile) /\ Truthy(code) /\ Truthy(password) /\ Truthy(password2))
    THEN Some(Resp("PARAMERR", "arguments incomplete"))
    ELSE IF ~MobileMatch(Val(mobile))
    THEN Some(Resp("PARAMERR", "mobile format wrong"))
    ELSE IF password # password2
    THEN Some(Resp("PARAMERR", "passwords differ"))
    ELSE None

RegisterRequest(c, mobile, code, password, password2) ==
    /\ proc[c].pc = "idle"
    /\ LET p == [Idle EXCEPT !.op = "register", !.mobile = mobile, !.sms_code = code,
                             !.password = password, !.password2 = password2]
           r == RegisterCheck(mobile, code, password, password2)
           h == StartHist(c, ArgsClass(mobile, code, password, password2))
       IN  IF IsNone(r)
           THEN /\ proc' = [proc EXCEPT ![c] = [p EXCEPT !.pc = "reg_get"]]
                /\ result' = [result EXCEPT ![c] = NoResp]
                /\ hist' = [hist EXCEPT ![c] =
                              [h EXCEPT !.after_use = (ledger[Val(mobile)].used = code)]]
           ELSE /\ proc' = [proc EXCEPT ![c] = [Idle EXCEPT !.op = "register"]]
                /\ result' = [result EXCEPT ![c] = Val(r)]
                /\ hist' = [hist EXCEPT ![c] = h]
    /\ UNCHANGED <<sms_code, access_nums, users, session, ledger, since, epoch, auth>>

\* redis_store.get('sms_code_%s' % mobile)
RegisterGet(c) ==
    /\ proc[c].pc = "reg_get"
    /\ LET m == Val(proc[c].mobile) IN
       \/ \* the lookup raises
          /\ Return(c, Resp("DBERR", "reading the sms code failed"))
          /\ UNCHANGED hist
       \/ /\ m \notin DOMAIN sms_code
          /\ Return(c, Resp("NODATA", "sms code expired"))
          /\ hist' = [hist EXCEPT ![c].code_read = TRUE]
       \/ /\ m \in DOMAIN sms_code
          /\ proc' = [proc EXCEPT ![c].pc = "reg_delete",
                                  ![c].real_sms_code = Some(sms_code[m])]
          /\ hist' = [hist EXCEPT ![c].code_read = TRUE]
          /\ UNCHANGED result
    /\ UNCHANGED <<sms_code, access_nums, users, session, ledger, since, epoch, auth>>

\* the response to a submitted code that differs from the stored one
CodeMismatchError == Resp("DATAERR", "sms code wrong")

\* the comparison of the decoded code with the submitted one
RegisterCompare(c) ==
    IF Decode(Val(proc[c].real_sms_code)) # Val(proc[c].sms_code)
    THEN /\ Return(c, CodeMismatchError)
         /\ UNCHANGED hist
    ELSE /\ proc' = [proc EXCEPT ![c].pc = "reg_commit"]
         /\ hist' = [hist EXCEPT ![c].passed = TRUE, ![c].current = TRUE]
         /\ UNCHANGED result

\* redis_store.delete('sms_code_%s' % mobile), then the comparison
RegisterDelete(c) ==
    /\ proc[c].pc = "reg_delete"
    /\ LET m == Val(proc[c].mobile)
           ok == Decode(Val(proc[c].real_sms_code)) = Val(proc[c].sms_code)
           n == IF ok /\ ledger[m].passed < 2 THEN ledger[m].passed + 1
                ELSE ledger[m].passed
       IN
       \/ \* the delete raises: logged, the request goes on
          /\ UNCHANGED sms_code
          /\ ledger' = [ledger EXCEPT ![m].passed = n, ![m].del_failed = TRUE]
       \/ /\ sms_code' = Del(sms_code, m)
          /\ ledger' = [ledger EXCEPT ![m].passed = n]
    /\ RegisterCompare(c)
    /\ UNCHANGED <<access_nums, users, session, since, epoch, auth>>

\* user.id of a new row: the auto-increment key
NextUserId == Cardinality(DOMAIN users) + 1

\* session['name'], session['mobile'], session['user_id']
Establish(name, mobile, user_id) ==
    [f \in {"name", "mobile", "user_id"} |->
        IF f = "name" THEN name ELSE IF f = "mobile" THEN mobile ELSE <<user_id>>]

\* RegisterCommit that writes the session before the commit of the user
RegisterCommit_SessionFirst(c) ==
    /\ proc[c].pc = "reg_commit"
    /\ LET m == Val(proc[c].mobile) IN
         /\ session' = [session EXCEPT ![c] = Establish(m, m, NextUserId)]
         /\ \/ /\ m \in DOMAIN users
               /\ Return(c, Resp("DATAEXIST", "mobile exists"))
               /\ UNCHANGED <<users, auth>>
            \/ /\ Return(c, Resp("DATAERR", "database error"))
               /\ UNCHANGED <<users, auth>>
            \/ /\ m \notin DOMAIN users
               /\ users' = Put(users, m, NewUser(NextUserId, m, Val(proc[c].password)))
               /\ auth' = [auth EXCEPT ![c] = Some(m)]
               /\ Return(c, Resp("OK", "registered"))
         /\ ledger' = IF hist[c].current
                      THEN [ledger EXCEPT ![m].used = proc[c].sms_code] ELSE ledger
    /\ UNCHANGED <<sms_code, access_nums, hist, since, epoch>>

\* db.session.add(user); db.session.commit(); then the session
RegisterCommit(c) ==
    /\ proc[c].pc = "reg_commit"
    /\ LET m == Val(proc[c].mobile) IN
         /\ \/ \* IntegrityError: the mobile is registered already
               /\ m \in DOMAIN users
               /\ Return(c, Resp("DATAEXIST", "mobile exists"))
               /\ UNCHANGED <<users, session, auth>>
            \/ \* any other exception
               /\ Return(c, Resp("DATAERR", "database error"))
               /\ UNCHANGED <<users, session, auth>>
            \/ /\ m \notin DOMAIN users
               /\ users' = Put(users, m, NewUser(NextUserId, m, Val(proc[c].password)))
               /\ session' = [session EXCEPT ![c] = Establish(m, m, NextUserId)]
               /\ auth' = [auth EXCEPT ![c] = Some(m)]
               /\ Return(c, Resp("OK", "registered"))
         /\ ledger' = IF hist[c].current
                      THEN [ledger EXCEPT ![m].used = proc[c].sms_code] ELSE ledger
    /\ UNCHANGED <<sms_code, access_nums, hist, since, epoch>>

(***************************************************************************)
(* login: POST /session                                                    *)
(***************************************************************************)
LoginCheck(mobile, password) ==
    IF ~(Truthy(mobile) /\ Truthy(password))
    THEN Some(Resp("DATAERR", "arguments incomplete"))
    ELSE IF ~MobileMatch(Val(mobile))
    THEN Some(Resp("DATAERR", "mobile format wrong"))
    ELSE None

\* a login of address a is between its counter lookup and its return
InFlight(a) ==
    {c \in Clients : proc[c].op = "login" /\ proc[c].pc # "idle" /\ proc[c].ip = a}

LoginRequest(c, mobile, password, a) ==
    /\ proc[c].pc = "idle"
    /\ LET p == [Idle EXCEPT !.op = "login", !.mobile = mobile,
                             !.password = password, !.ip = a]
           r == LoginCheck(mobile, password)
       IN  IF IsNone(r)
           THEN /\ proc' = [proc EXCEPT ![c] = [p EXCEPT !.pc = "login_get"]]
                /\ result' = [result EXCEPT ![c] = NoResp]
                /\ epoch' = IF a \notin DOMAIN access_nums /\ InFlight(a) = {}
                            THEN [epoch EXCEPT ![a] = [NewEpoch EXCEPT !.clean = TRUE]]
                            ELSE epoch
           ELSE /\ proc' = [proc EXCEPT ![c] = [Idle EXCEPT !.op = "login", !.ip = a]]
                /\ result' = [result EXCEPT ![c] = Val(r)]
                /\ UNCHANGED epoch
    /\ hist' = [hist EXCEPT ![c] =
                  StartHist(c, ArgsClass(mobile, Some(Code1), password, password))]
    /\ UNCHANGED <<sms_code, access_nums, users, session, ledger, since, auth>>

\* Blocked with the comparison off by one: > for >=
Blocked_OffByOne(nums) == ~IsNone(nums) /\ Val(nums) > LOGIN_ERROR_MAX_TIMES

\* access_nums is not None and int(access_nums) >= constants.LOGIN_ERROR_MAX_TIMES
Blocked(nums) == ~IsNone(nums) /\ Val(nums) >= LOGIN_ERROR_MAX_TIMES

\* LoginGet that fails closed: a lookup that raises rejects the request
LoginGet_FailClosed(c) ==
    /\ proc[c].pc = "login_get"
    /\ LET a == proc[c].ip
           nums == IF a \in DOMAIN access_nums THEN Some(access_nums[a].n) ELSE None
       IN
       \/ /\ Return(c, Resp("REQERR", "too many errors"))
          /\ hist' = [hist EXCEPT ![c].lookup = "failed"]
          /\ epoch' = [epoch EXCEPT ![a] = NewEpoch]
       \/ /\ Blocked(nums)
          /\ Return(c, Resp("REQERR", "too many errors"))
          /\ hist' = [hist EXCEPT ![c].lookup = "answered", ![c].seen = nums]
          /\ UNCHANGED epoch
       \/ /\ ~Blocked(nums)
          /\ proc' = [proc EXCEPT ![c].pc = "login_query", ![c].access_nums = nums]
          /\ hist' = [hist EXCEPT ![c].lookup = "answered", ![c].seen = nums]
          /\ UNCHANGED <<result, epoch>>
    /\ UNCHANGED <<sms_code, access_nums, users, session, ledger, since, auth>>

\* LoginGet that restarts the time to live of the counter when it rejects
LoginGet_BlockedExtends(c) ==
    /\ proc[c].pc = "login_get"
    /\ LET a == proc[c].ip
           nums == IF a \in DOMAIN access_nums THEN Some(access_nums[a].n) ELSE None
       IN
       \/ /\ proc' = [proc EXCEPT ![c].pc = "login_query"]
          /\ hist' = [hist EXCEPT ![c].lookup = "failed"]
          /\ epoch' = [epoch EXCEPT ![a] = NewEpoch]
          /\ UNCHANGED <<result, access_nums>>
       \/ /\ Blocked(nums)
          /\ Return(c, Resp("REQERR", "too many errors"))
          /\ hist' = [hist EXCEPT ![c].lookup = "answered", ![c].seen = nums]
          /\ access_nums' = [access_nums EXCEPT ![a].ttl = LOGIN_ERROR_FORBID_TIME]
          /\ UNCHANGED epoch
       \/ /\ ~Blocked(nums)
          /\ proc' = [proc EXCEPT ![c].pc = "login_query", ![c].access_nums = nums]
          /\ hist' = [hist EXCEPT ![c].lookup = "answered", ![c].seen = nums]
          /\ UNCHANGED <<result, epoch, access_nums>>
    /\ UNCHANGED <<sms_code, users, session, ledger, since, auth>>

\* redis_store.get('access_nums_%s' % user_ip) and the limit
LoginGet(c) ==
    /\ proc[c].pc = "login_get"
    /\ LET a == proc[c].ip
           nums == IF a \in DOMAIN access_nums THEN Some(access_nums[a].n) ELSE None
       IN
       \/ \* the lookup raises: logged, the request goes on
          /\ proc' = [proc EXCEPT ![c].pc = "login_query"]
          /\ hist' = [hist EXCEPT ![c].lookup = "failed"]
          /\ epoch' = [epoch EXCEPT ![a] = NewEpoch]
          /\ UNCHANGED result
       \/ /\ Blocked(nums)
          /\ Return(c, Resp("REQERR", "too many errors"))
          /\ hist' = [hist EXCEPT ![c].lookup = "answered", ![c].seen = nums]
          /\ UNCHANGED epoch
       \/ /\ ~Blocked(nums)
          /\ proc' = [proc EXCEPT ![c].pc = "login_query", ![c].access_nums = nums]
          /\ hist' = [hist EXCEPT ![c].lookup = "answered", ![c].seen = nums]
          /\ UNCHANGED <<result, epoch>>
    /\ UNCHANGED <<sms_code, access_nums, users, session, ledger, since, auth>>

\* user is None or not user.check_password(password)
CredentialsFail(user, password) ==
    IF IsNone(user) THEN TRUE ELSE ~CheckPassword(Val(user), Val(password))

\* LoginQuery that tells an unregistered mobile apart: it answers NODATA for it
\* and records no failure
LoginQuery_TellsUnknown(c) ==
    /\ proc[c].pc = "login_query"
    /\ LET m == Val(proc[c].mobile)
           user == IF m \in DOMAIN users THEN Some(users[m]) ELSE None
       IN
       \/ /\ Return(c, Resp("DBERR", "reading the user failed"))
          /\ hist' = [hist EXCEPT ![c].dbq = TRUE]
          /\ UNCHANGED <<session, auth, epoch>>
       \/ /\ IsNone(user)
          /\ Return(c, Resp("NODATA", "mobile not registered"))
          /\ hist' = [hist EXCEPT ![c].dbq = TRUE, ![c].cause = "unknown"]
          /\ UNCHANGED <<session, auth, epoch>>
       \/ /\ ~IsNone(user)
          /\ CredentialsFail(user, proc[c].password)
          /\ proc' = [proc EXCEPT ![c].pc = "login_incr", ![c].user = user]
          /\ hist' = [hist EXCEPT ![c].dbq = TRUE, ![c].cause = "wrong"]
          /\ UNCHANGED <<result, session, auth, epoch>>
       \/ /\ ~CredentialsFail(user, proc[c].password)
          /\ session' = [session EXCEPT ![c] =
                           Establish(Val(user).name, Val(user).mobile, Val(user).id)]
          /\ auth' = [auth EXCEPT ![c] = Some(Val(user).name)]
          /\ hist' = [hist EXCEPT ![c].dbq = TRUE, ![c].cause = "ok"]
          /\ Return(c, Resp("OK", "logged in"))
          /\ UNCHANGED epoch
    /\ UNCHANGED <<sms_code, access_nums, users, ledger, since>>

\* LoginQuery that clears the counter of the address on a successful login
LoginQuery_ResetsCounter(c) ==
    /\ proc[c].pc = "login_query"
    /\ LET m == Val(proc[c].mobile)
           user == IF m \in DOMAIN users THEN Some(users[m]) ELSE None
       IN
       \/ /\ Return(c, Resp("DBERR", "reading the user failed"))
          /\ hist' = [hist EXCEPT ![c].dbq = TRUE]
          /\ UNCHANGED <<session, auth, epoch, access_nums>>
       \/ /\ CredentialsFail(user, proc[c].password)
          /\ proc' = [proc EXCEPT ![c].pc = "login_incr", ![c].user = user]
          /\ hist' = [hist EXCEPT ![c].dbq = TRUE,
                         ![c].cause = IF IsNone(user) THEN "unknown" ELSE "wrong"]
          /\ epoch' = IF epoch[proc[c].ip].clean
                         /\ \E d \in InFlight(proc[c].ip) \ {c} : proc[d].pc = "login_incr"
                      THEN [epoch EXCEPT ![proc[c].ip].overlap = TRUE] ELSE epoch
          /\ UNCHANGED <<result, session, auth, access_nums>>
       \/ /\ ~CredentialsFail(user, proc[c].password)
          /\ session' = [session EXCEPT ![c] =
                           Establish(Val(user).name, Val(user).mobile, Val(user).id)]
          /\ auth' = [auth EXCEPT ![c] = Some(Val(user).name)]
          /\ hist' = [hist EXCEPT ![c].dbq = TRUE, ![c].cause = "ok"]
          /\ access_nums' = Del(access_nums, proc[c].ip)
          /\ Return(c, Resp("OK", "logged in"))
          /\ UNCHANGED epoch
    /\ UNCHANGED <<sms_code, users, ledger, since>>

\* User.query.filter_by(mobile=mobile).first() and the password check
LoginQuery(c) ==
    /\ proc[c].pc = "login_query"
    /\ LET m == Val(proc[c].mobile)
           user == IF m \in DOMAIN users THEN Some(users[m]) ELSE None
       IN
       \/ \* the query raises
          /\ Return(c, Resp("DBERR", "reading the user failed"))
          /\ hist' = [hist EXCEPT ![c].dbq = TRUE]
          /\ UNCHANGED <<session, auth, epoch>>
       \/ /\ CredentialsFail(user, proc[c].password)
          /\ proc' = [proc EXCEPT ![c].pc = "login_incr", ![c].user = user]
          /\ hist' = [hist EXCEPT ![c].dbq = TRUE,
                         ![c].cause = IF IsNone(user) THEN "unknown" ELSE "wrong"]
          /\ epoch' = IF epoch[proc[c].ip].clean
                         /\ \E d \in InFlight(proc[c].ip) \ {c} : proc[d].pc = "login_incr"
                      THEN [epoch EXCEPT ![proc[c].ip].overlap = TRUE] ELSE epoch
          /\ UNCHANGED <<result, session, auth>>
       \/ /\ ~CredentialsFail(user, proc[c].password)
          /\ session' = [session EXCEPT ![c] =
                           Establish(Val(user).name, Val(user).mobile, Val(user).id)]
          /\ auth' = [auth EXCEPT ![c] = Some(Val(user).name)]
          /\ hist' = [hist EXCEPT ![c].dbq = TRUE, ![c].cause = "ok"]
          /\ Return(c, Resp("OK", "logged in"))
          /\ UNCHANGED epoch
    /\ UNCHANGED <<sms_code, access_nums, users, ledger, since>>

CredentialError == Resp("DATAERR", "mobile or password wrong")

\* LoginIncr as a read-modify-write: it stores the value the request read in
\* its lookup, plus one, instead of redis' atomic incr
LoginIncr_ReadModifyWrite(c) ==
    /\ proc[c].pc = "login_incr"
    /\ LET a == proc[c].ip
           old == IF IsNone(proc[c].access_nums) THEN 0 ELSE Val(proc[c].access_nums)
       IN
       \/ /\ Return(c, CredentialError)
          /\ hist' = [hist EXCEPT ![c].limiter = "incr failed"]
          /\ epoch' = [epoch EXCEPT ![a] = NewEpoch]
          /\ UNCHANGED <<access_nums, since>>
       \/ /\ access_nums' =
                IF a \in DOMAIN access_nums
                THEN [access_nums EXCEPT ![a].n = old + 1]
                ELSE Put(access_nums, a, [n |-> old + 1, ttl |-> -1])
          /\ proc' = [proc EXCEPT ![c].pc = "login_expire"]
          /\ since' = [since EXCEPT ![a] = 0]
          /\ UNCHANGED <<result, hist, epoch>>
    /\ UNCHANGED <<sms_code, users, session, ledger, auth>>

\* redis_store.incr('access_nums_%s' % user_ip)
LoginIncr(c) ==
    /\ proc[c].pc = "login_incr"
    /\ LET a == proc[c].ip IN
       \/ \* the increment raises: logged, the expire is skipped
          /\ Return(c, CredentialError)
          /\ hist' = [hist EXCEPT ![c].limiter = "incr failed"]
          /\ epoch' = [epoch EXCEPT ![a] = NewEpoch]
          /\ UNCHANGED <<access_nums, since>>
       \/ /\ access_nums' =
                IF a \in DOMAIN access_nums
                THEN [access_nums EXCEPT ![a].n = @ + 1]
                ELSE Put(access_nums, a, [n |-> 1, ttl |-> -1])
          /\ proc' = [proc EXCEPT ![c].pc = "login_expire"]
          /\ since' = [since EXCEPT ![a] = 0]
          /\ UNCHANGED <<result, hist, epoch>>
    /\ UNCHANGED <<sms_code, users, session, ledger, auth>>

\* LoginExpire that reports a failure of the store instead of hiding it
LoginExpire_Surfaces(c) ==
    /\ proc[c].pc = "login_expire"
    /\ LET a == proc[c].ip IN
       /\ \/ /\ hist' = [hist EXCEPT ![c].limiter = "expire failed"]
             /\ epoch' = [epoch EXCEPT ![a] = NewEpoch]
             /\ Return(c, Resp("DBERR", "recording the failure failed"))
             /\ UNCHANGED access_nums
          \/ /\ access_nums' =
                   IF a \in DOMAIN access_nums
                   THEN [access_nums EXCEPT ![a].ttl = LOGIN_ERROR_FORBID_TIME]
                   ELSE access_nums
             /\ hist' = [hist EXCEPT ![c].limiter = "recorded"]
             /\ epoch' = [epoch EXCEPT ![a].failed = IF epoch[a].clean THEN @ + 1 ELSE @]
             /\ Return(c, CredentialError)
       /\ since' = [since EXCEPT ![a] = 0]
    /\ UNCHANGED <<sms_code, users, session, ledger, auth>>

\* redis_store.expire('access_nums_%s' % user_ip, constants.LOGIN_ERROR_FORBID_TIME)
LoginExpire(c) ==
    /\ proc[c].pc = "login_expire"
    /\ LET a == proc[c].ip IN
       /\ \/ \* the expire raises: logged
             /\ hist' = [hist EXCEPT ![c].limiter = "expire failed"]
             /\ epoch' = [epoch EXCEPT ![a] = NewEpoch]
             /\ UNCHANGED access_nums
          \/ /\ access_nums' =
                   IF a \in DOMAIN access_nums
                   THEN [access_nums EXCEPT ![a].ttl = LOGIN_ERROR_FORBID_TIME]
                   ELSE access_nums
             /\ hist' = [hist EXCEPT ![c].limiter = "recorded"]
             /\ epoch' = [epoch EXCEPT ![a].failed = IF epoch[a].clean THEN @ + 1 ELSE @]
       /\ since' = [since EXCEPT ![a] = 0]
    /\ Return(c, CredentialError)
    /\ UNCHANGED <<sms_code, users, session, ledger, auth>>

(***************************************************************************)
(* check_login: GET /session, and logout: DELETE /session                  *)
(***************************************************************************)
\* session.get('name')
SessionGet(s, f) == IF f \in DOMAIN s THEN Some(s[f]) ELSE None

CheckLogin(c) ==
    /\ proc[c].pc = "idle"
    /\ LET name == SessionGet(session[c], "name") IN
       result' = [result EXCEPT ![c] =
                    IF Truthy(name)
                    THEN [Resp("OK", "true") EXCEPT !.data = name]
                    ELSE Resp("SESSIONERR", "false")]
    /\ proc' = [proc EXCEPT ![c] = [Idle EXCEPT !.op = "check_login"]]
    /\ hist' = [hist EXCEPT ![c] = StartHist(c, "ok")]
    /\ UNCHANGED <<sms_code, access_nums, users, session, ledger, since, epoch, auth>>

\* Logout that drops the user id only and keeps the name in the session
Logout_KeepsName(c) ==
    /\ proc[c].pc = "idle"
    /\ session' = [session EXCEPT ![c] = Del(@, "user_id")]
    /\ auth' = [auth EXCEPT ![c] = None]
    /\ result' = [result EXCEPT ![c] = Resp("OK", "ok")]
    /\ proc' = [proc EXCEPT ![c] = [Idle EXCEPT !.op = "logout"]]
    /\ hist' = [hist EXCEPT ![c] =
                  StartHist(c, IF proc[c].op = "logout" THEN "again" ELSE "ok")]
    /\ UNCHANGED <<sms_code, access_nums, users, ledger, since, epoch>>

\* Logout that refuses a client whose session holds no name
Logout_RequiresLogin(c) ==
    /\ proc[c].pc = "idle"
    /\ session' = [session EXCEPT ![c] = Empty]
    /\ auth' = [auth EXCEPT ![c] = None]
    /\ result' = [result EXCEPT ![c] =
                    IF Truthy(SessionGet(session[c], "name"))
                    THEN Resp("OK", "ok") ELSE Resp("SESSIONERR", "not logged in")]
    /\ proc' = [proc EXCEPT ![c] = [Idle EXCEPT !.op = "logout"]]
    /\ hist' = [hist EXCEPT ![c] =
                  StartHist(c, IF proc[c].op = "logout" THEN "again" ELSE "ok")]
    /\ UNCHANGED <<sms_code, access_nums, users, ledger, since, epoch>>

\* session.clear()
Logout(c) ==
    /\ proc[c].pc = "idle"
    /\ session' = [session EXCEPT ![c] = Empty]
    /\ auth' = [auth EXCEPT ![c] = None]
    /\ result' = [result EXCEPT ![c] = Resp("OK", "ok")]
    /\ proc' = [proc EXCEPT ![c] = [Idle EXCEPT !.op = "logout"]]
    /\ hist' = [hist EXCEPT ![c] =
                  StartHist(c, IF proc[c].op = "logout" THEN "again" ELSE "ok")]
    /\ UNCHANGED <<sms_code, access_nums, users, ledger, since, epoch>>

(***************************************************************************)
(* Time: one tick of the clock; redis drops the keys whose time is over.   *)
(***************************************************************************)
Tick ==
    /\ LET gone == {a \in DOMAIN access_nums : access_nums[a].ttl = 1} IN
       /\ access_nums' = [a \in (DOMAIN access_nums) \ gone |->
                            IF access_nums[a].ttl > 1
                            THEN [access_nums[a] EXCEPT !.ttl = @ - 1]
                            ELSE access_nums[a]]
       /\ epoch' = [a \in Addrs |->
                      IF a \in gone THEN NewEpoch ELSE epoch[a]]
    /\ since' = [a \in Addrs |->
                   IF since[a] < LOGIN_ERROR_FORBID_TIME THEN since[a] + 1 ELSE since[a]]
    /\ UNCHANGED <<sms_code, users, session, proc, result, hist, ledger, auth>>

(***************************************************************************)
(* Specifications.  Spec: every operation, requests one after the other    *)
(* (one client sends them).  SpecRegister: the register requests of all    *)
(* clients, interleaved.  SpecLogin: the login requests of all clients,    *)
(* interleaved, and the clock, from a state with one registered user.      *)
(***************************************************************************)
CodeNext ==
    \/ \E m \in {Mobile1}, code \in {Code1, Code2} : SendSmsCode(m, code)
    \/ \E m \in {Mobile1} : ExpireSmsCode(m)

RegisterNext(cs) ==
    \/ \E c \in cs, i \in RegisterInputs : RegisterRequest(c, i[1], i[2], i[3], i[4])
    \/ \E c \in cs : RegisterGet(c)
    \/ \E c \in cs : RegisterDelete(c)
    \/ \E c \in cs : RegisterCommit(c)

\* the logins of address a that have not reached redis_store.incr yet
Pending(a) ==
    {c \in Clients : proc[c].ip = a /\ proc[c].pc \in {"login_get", "login_query", "login_incr"}}

\* The clients send a login that passes the checks of its arguments only while
\* the counter of the address, with every pending login counted as a failure,
\* stays within MaxCount; the handler itself has no such limit.
LoginNext(cs) ==
    \/ \E c \in cs, i \in LoginInputs, a \in Addrs :
          /\ IsNone(LoginCheck(i[1], i[2]))
                => (IF a \in DOMAIN access_nums THEN access_nums[a].n ELSE 0)
                      + Cardinality(Pending(a)) < MaxCount
          /\ LoginRequest(c, i[1], i[2], a)
    \/ \E c \in cs : LoginGet(c)
    \/ \E c \in cs : LoginQuery(c)
    \/ \E c \in cs : LoginIncr(c)
    \/ \E c \in cs : LoginExpire(c)

SessionNext(cs) ==
    \/ \E c \in cs : CheckLogin(c)
    \/ \E c \in cs : Logout(c)

Next ==
    \/ CodeNext
    \/ RegisterNext({"a"})
    \/ LoginNext({"a"})
    \/ SessionNext({"a"})
    \/ Tick

Spec == Init /\ [][Next]_vars

NextRegister ==
    \/ CodeNext
    \/ RegisterNext(Clients)
    \/ SessionNext(Clients)

SpecRegister == Init /\ [][NextRegister]_vars

NextLogin ==
    \/ LoginNext(Clients)
    \/ SessionNext(Clients)
    \/ Tick

SpecLogin == InitLogin /\ [][NextLogin]_vars

(***************************************************************************)
(* The claims.                                                             *)
(***************************************************************************)
\* the request of client c has returned
Returned(c) == proc[c].pc = "idle"

\* the value of the counter of address a; an absent counter counts 0
Count(a) == IF a \in DOMAIN access_nums THEN access_nums[a].n ELSE 0

\* C1: a Register that submits the code c, starts after a Register that passed
\* the verification-code step with c has returned, with no code sent in between,
\* and gets an answer to its lookup of the code, returns NODATA (the code is gone).
C1_SecondSubmissionFails ==
    \A c \in Clients :
        (proc[c].op = "register" /\ hist[c].after_use /\ hist[c].code_read)
            => (Returned(c) /\ result[c].errno = "NODATA")

\* C2: of the Register requests that submit the code sent last, at most one
\* passes the verification-code step, under every interleaving (no delete of the
\* code fails).
C2_AtMostOnePasses ==
    \A m \in DOMAIN ledger : ~ledger[m].del_failed => ledger[m].passed <= 1

\* C3: an address with LOGIN_ERROR_MAX_TIMES failures recorded and none expired
\* is blocked; and once LOGIN_ERROR_FORBID_TIME has passed since the last failure
\* was recorded for an address, and no login is recording one, it is not blocked.
C3_BlockedThenReleased ==
    \A a \in Addrs :
        /\ (epoch[a].clean /\ epoch[a].failed >= LOGIN_ERROR_MAX_TIMES)
              => Blocked(Some(Count(a)))
        /\ (since[a] >= LOGIN_ERROR_FORBID_TIME
              /\ ~\E c \in InFlight(a) : proc[c].pc = "login_expire")
              => ~Blocked(Some(Count(a)))

\* C4: a Login whose lookup of the counter is answered with a value of at least
\* LOGIN_ERROR_MAX_TIMES returns REQERR at once: it never queries the user table
\* and leaves the session as it was, whatever mobile and password it submits.
C4_BlockedBeforeQuery ==
    \A c \in Clients :
        (proc[c].op = "login" /\ hist[c].lookup = "answered"
           /\ ~IsNone(hist[c].seen) /\ Val(hist[c].seen) >= LOGIN_ERROR_MAX_TIMES)
        => /\ Returned(c)
           /\ result[c].errno = "REQERR"
           /\ ~hist[c].dbq
           /\ session[c] = hist[c].session0

\* a blocked Login that submitted the mobile and the password of a registered user
C4_Witness ==
    \E c \in Clients :
        /\ proc[c].op = "login" /\ Returned(c) /\ result[c].errno = "REQERR"
        /\ ~IsNone(hist[c].seen) /\ Val(hist[c].seen) >= LOGIN_ERROR_MAX_TIMES
        /\ Val(proc[c].mobile) \in DOMAIN users
        /\ CheckPassword(users[Val(proc[c].mobile)], Val(proc[c].password))

\* C5: a Login of an unregistered mobile and a Login with a wrong password of a
\* registered one are treated alike: after the query both go on to record the
\* failure, both return the same response (DATAERR, mobile or password wrong),
\* and neither changes the session.
C5_SameFailure ==
    /\ \A c \in Clients :
          hist[c].cause \in {"unknown", "wrong"}
          => /\ session[c] = hist[c].session0
             /\ IF Returned(c)
                THEN result[c] = CredentialError /\ hist[c].limiter # "-"
                ELSE proc[c].pc \in {"login_incr", "login_expire"}
    /\ \A c, d \in Clients :
          (hist[c].cause = "unknown" /\ hist[d].cause = "wrong"
             /\ Returned(c) /\ Returned(d))
          => result[c] = result[d]

\* one Login failed for an unregistered mobile, another for a wrong password, and
\* both recorded the failure
C5_Witness ==
    \E c, d \in Clients :
        /\ hist[c].cause = "unknown" /\ hist[d].cause = "wrong"
        /\ Returned(c) /\ Returned(d)
        /\ hist[c].limiter = "recorded" /\ hist[d].limiter = "recorded"

\* C6: a Register with a missing argument, a malformed mobile or two different
\* passwords returns PARAMERR before the lookup of the code: the code is not read.
C6_InvalidSpendsNoCode ==
    \A c \in Clients :
        (proc[c].op = "register" /\ hist[c].args \in {"missing", "malformed", "mismatch"})
        => /\ Returned(c)
           /\ result[c].errno = "PARAMERR"
           /\ ~hist[c].code_read

\* a Register with two different passwords was rejected and the code is still stored
C6_Witness ==
    \E c \in Clients :
        /\ proc[c].op = "register" /\ hist[c].args = "mismatch"
        /\ result[c].errno = "PARAMERR"
        /\ Mobile1 \in DOMAIN sms_code

\* C7: check_login answers OK with the display name exactly when the last
\* successful Login or Register of the client was not followed by a Logout, and
\* SESSIONERR otherwise.
C7_SessionStateMachine ==
    \A c \in Clients :
        proc[c].op = "check_login"
        => result[c] = IF IsNone(auth[c])
                       THEN Resp("SESSIONERR", "false")
                       ELSE [Resp("OK", "true") EXCEPT !.data = auth[c]]

\* check_login answered SESSIONERR for a client that registered (and so was
\* logged in) before
C7_Witness ==
    /\ proc["a"].op = "check_login"
    /\ result["a"].errno = "SESSIONERR"
    /\ Mobile1 \in DOMAIN users

\* C8: when the logins of an address started with no counter, no store operation
\* of the limiter failed and the counter did not expire, then once all of them
\* have returned the counter equals the number of those that failed.
C8_NoLostIncrement ==
    \A a \in Addrs :
        (epoch[a].clean /\ InFlight(a) = {}) => Count(a) = epoch[a].failed

\* two failed logins that were about to increment at the same time have returned
C8_Witness ==
    \E a \in Addrs :
        /\ epoch[a].clean /\ epoch[a].overlap /\ InFlight(a) = {}
        /\ epoch[a].failed = Cardinality(Clients)

\* C9: a Login whose lookup of the counter raised is not blocked: it goes on to
\* the query of the user, and with the right password it returns OK and
\* establishes the session.
C9_FailOpen ==
    \A c \in Clients :
        hist[c].lookup = "failed"
        => /\ result[c].errno # "REQERR"
           /\ Returned(c) => hist[c].dbq
           /\ (Returned(c) /\ hist[c].cause = "ok")
                 => /\ result[c].errno = "OK"
                    /\ SessionGet(session[c], "mobile") = proc[c].mobile

\* a Login succeeded although its lookup of the counter raised
C9_Witness ==
    \E c \in Clients :
        /\ hist[c].lookup = "failed" /\ Returned(c)
        /\ result[c].errno = "OK"
        /\ SessionGet(session[c], "name") = Some(Mobile1)

\* C10: a Login whose password check failed and whose increment or expire raised
\* still returns DATAERR (mobile or password wrong) and leaves the session alone.
C10_RecordingFailureHidden ==
    \A c \in Clients :
        hist[c].limiter \in {"incr failed", "expire failed"}
        => /\ Returned(c)
           /\ result[c] = CredentialError
           /\ session[c] = hist[c].session0

\* one Login whose increment raised and one whose expire raised
C10_Witness ==
    \E c, d \in Clients :
        /\ hist[c].limiter = "incr failed" /\ hist[d].limiter = "expire failed"
        /\ result[c] = CredentialError /\ result[d] = CredentialError

\* C11: the step on which a Login returns OK leaves the counters and their
\* expiry as they are, and a counter disappears only on a tick of the clock that
\* ends its time to live.
C11_SuccessKeepsCounter ==
    [][/\ \A c \in Clients :
             (proc[c].pc = "login_query" /\ Returned(c)' /\ result'[c].errno = "OK")
             => access_nums' = access_nums
       /\ \A a \in DOMAIN access_nums :
             a \notin DOMAIN access_nums'
             => (access_nums[a].ttl = 1 /\ proc' = proc /\ result' = result)]_vars

\* a Login returned OK after it looked up a counter of at least 1, and the
\* counter is still there
C11_Witness ==
    \E c \in Clients :
        /\ proc[c].op = "login" /\ Returned(c) /\ result[c].errno = "OK"
        /\ ~IsNone(hist[c].seen) /\ Val(hist[c].seen) >= 1
        /\ Count(proc[c].ip) >= Val(hist[c].seen)

\* C12: when a Register whose lookup found a code has gone through the delete
\* and the comparison, whether the code matched or not, no code is stored for
\* its mobile.
C12_LookedUpCodeIsGone ==
    [][\A c \in Clients :
          (proc[c].pc = "reg_delete" /\ proc'[c].pc # "reg_delete")
          => Val(proc[c].mobile) \notin DOMAIN sms_code']_vars

\* C13: a Logout answers OK and leaves the session without fields, whatever the
\* session held; a Logout that follows a Logout starts from the empty session and
\* gives the same answer and the same session.
C13_LogoutIdempotent ==
    \A c \in Clients :
        proc[c].op = "logout"
        => /\ result[c] = Resp("OK", "ok")
           /\ session[c] = Empty
           /\ hist[c].args = "again" => hist[c].session0 = Empty

\* a client that registered has logged out twice in a row
C13_Witness ==
    /\ proc["a"].op = "logout"
    /\ hist["a"].args = "again"
    /\ Mobile1 \in DOMAIN users

\* C14: a Register that passed the verification-code step and fails to store
\* the user answers DATAEXIST only when the mobile is registered already, and
\* otherwise with an error code that is neither the one of a wrong code nor
\* DATAEXIST.
C14_StorageErrorDistinct ==
    [][\A c \in Clients :
          (proc[c].pc = "reg_commit" /\ Returned(c)' /\ result'[c].errno # "OK")
          => IF result'[c].errno = "DATAEXIST"
             THEN Val(proc[c].mobile) \in DOMAIN users
             ELSE result'[c].errno \notin {CodeMismatchError.errno, "DATAEXIST"}]_vars

\* C15: when a Login has finished recording a failure (the increment was made
\* and the request went through the expire call), the counter of its address is
\* there with the full LOGIN_ERROR_FORBID_TIME to live.
C15_FailureRefreshesWindow ==
    [][\A c \in Clients :
          (proc[c].pc = "login_expire" /\ Returned(c)')
          => /\ proc[c].ip \in DOMAIN access_nums'
             /\ access_nums'[proc[c].ip].ttl = LOGIN_ERROR_FORBID_TIME]_vars

\* C16: in every step the counter of an address stays as it is, goes up by
\* exactly 1 (from absent to 1 included), or goes from present to absent on a tick
\* of the clock that ends its time to live; no request lowers or deletes it.
C16_CounterSteps ==
    [][\A a \in Addrs :
          \/ Count(a)' = Count(a)
          \/ Count(a)' = Count(a) + 1
          \/ /\ a \in DOMAIN access_nums /\ a \notin DOMAIN access_nums'
             /\ access_nums[a].ttl = 1
             /\ proc' = proc /\ result' = result /\ session' = session]_vars

\* a Login recorded a failure and the counter of its address has expired since
C16_Witness ==
    \E c \in Clients :
        /\ proc[c].op = "login" /\ Returned(c)
        /\ hist[c].limiter = "recorded"
        /\ proc[c].ip \notin DOMAIN access_nums

\* C17: a Register or Login that returned an error left the session as it was
\* when the request started; and the session holds no field when the client's
\* last successful Register or Login was followed by a Logout (or there was
\* none), and otherwise the name, mobile and user id that this Register or Login
\* wrote.
C17_ErrorsKeepSession ==
    \A c \in Clients :
        /\ (proc[c].op \in {"register", "login"} /\ Returned(c) /\ result[c].errno # "OK")
              => session[c] = hist[c].session0
        /\ IF IsNone(auth[c])
           THEN session[c] = Empty
           ELSE /\ DOMAIN session[c] = {"name", "mobile", "user_id"}
                /\ session[c]["name"] = Val(auth[c])
                /\ session[c]["mobile"] = Val(auth[c])
                /\ Val(auth[c]) \in DOMAIN users
                /\ session[c]["user_id"] = <<users[Val(auth[c])].id>>

\* a logged-in client sent a Login with a wrong password: it got the
\* credential error and is still logged in
C17_Witness ==
    \E c \in Clients :
        /\ proc[c].op = "login" /\ Returned(c)
        /\ result[c] = CredentialError
        /\ session[c] # Empty
        /\ hist[c].session0 = session[c]

\* C18 as stated: while the logins of an address started with no counter and no
\* store operation of the limiter failed, the counter of the address is at most
\* LOGIN_ERROR_MAX_TIMES.
C18_CounterAtMostMax ==
    \A a \in Addrs : epoch[a].clean => Count(a) <= LOGIN_ERROR_MAX_TIMES

\* C18: a Login checks the credentials only when its own lookup of the counter
\* raised, found no counter, or read a value below LOGIN_ERROR_MAX_TIMES; and
\* while the logins of an address started with no counter and no store operation
\* of the limiter failed, the counter is at most LOGIN_ERROR_MAX_TIMES - 1 plus
\* the number of clients that can have a Login in flight at once.
C18_BoundedOvershoot ==
    /\ \A c \in Clients :
          (proc[c].op = "login" /\ hist[c].dbq)
          => \/ hist[c].lookup = "failed"
             \/ /\ hist[c].lookup = "answered"
                /\ (IsNone(hist[c].seen) \/ Val(hist[c].seen) < LOGIN_ERROR_MAX_TIMES)
    /\ \A a \in Addrs :
          epoch[a].clean => Count(a) <= LOGIN_ERROR_MAX_TIMES - 1 + Cardinality(Clients)

\* two Logins that both read LOGIN_ERROR_MAX_TIMES - 1 have both recorded their
\* failure: the counter is above the limit, no store operation having failed
C18_Witness ==
    \E a \in Addrs :
        /\ epoch[a].clean
        /\ Count(a) = LOGIN_ERROR_MAX_TIMES + 1
        /\ \A c \in Clients :
              /\ proc[c].op = "login" /\ hist[c].limiter = "recorded"
              /\ hist[c].seen = Some(LOGIN_ERROR_MAX_TIMES - 1)

\* C19: whenever no Login is between its increment and its expire call, every
\* counter in the store has a time to live, of at most LOGIN_ERROR_FORBID_TIME.
C19_CounterHasExpiry ==
    \A a \in DOMAIN access_nums :
        (~\E c \in Clients : proc[c].pc = "login_expire" /\ proc[c].ip = a)
        => access_nums[a].ttl \in 1..LOGIN_ERROR_FORBID_TIME

\* C20: the step on which a Login is rejected with REQERR (too many attempts) or
\* for its arguments leaves every counter and its time to live as they are; and a
\* request changes a counter only after its credential check failed.
C20_RejectedRecordsNothing ==
    [][/\ \A c \in Clients :
             (/\ proc'[c].op = "login" /\ Returned(c)'
              /\ <<proc[c], result[c], hist[c]>> # <<proc'[c], result'[c], hist'[c]>>
              /\ \/ result'[c].errno = "REQERR"
                 \/ hist'[c].args # "ok")
             => access_nums' = access_nums
       /\ (access_nums' # access_nums /\ proc' # proc)
             => \E c \in Clients :
                   /\ proc'[c] # proc[c]
                   /\ proc[c].pc \in {"login_incr", "login_expire"}
                   /\ hist[c].cause \in {"unknown", "wrong"}]_vars

\* a Login was rejected with REQERR while the counter had 1 left to live, and
\* it still has; another Login was rejected for its arguments
C20_Witness ==
    \E c, d \in Clients :
        /\ proc[c].op = "login" /\ Returned(c) /\ result[c].errno = "REQERR"
        /\ hist[c].lookup = "answered"
        /\ proc[c].ip \in DOMAIN access_nums
        /\ access_nums[proc[c].ip].ttl = 1
        /\ proc[d].op = "login" /\ Returned(d) /\ hist[d].args # "ok"

=============================================================================
